---- MODULE Spec2Model ----
(***************************************************************************)
(* A model of the advanced-shell job control subsystem: the Job Table      *)
(* (JobManager), the parser/validator, the dispatcher and the shell loop.  *)
(***************************************************************************)
EXTENDS Integers, Sequences, FiniteSets, TLC

\* ------------------------------------------------------------------ bounds

\* Number of jobs that may be registered in one run (caps jobCounter).
MaxJobs == 2

\* Number of jobs that may be registered while the shell loop runs.
MaxShellJobs == 1

\* Last value of the wall clock (time.Now() readings are 1..MaxTime).
MaxTime == 2

\* Number of interrupt or termination signals delivered to the shell in one run.
MaxSignals == 2

\* Length of the longest line the parser is given, over every line of Alphabet.
MaxLineLen == 5

\* How far past a limit of ValidateCommand the sizes of the sample commands go.
PastLimit == 1

\* --------------------------------------------------------------- types.Job

JobStatusRunning == "Running"
JobStatusStopped == "Stopped"
JobStatusDone == "Done"

\* A nil *time.Time (Job.EndTime before completion).
NoTime == 0

\* Results of the Job Table operations (the error values they return).
ErrNil == "nil"
ErrNotFound == "job not found"
ErrAlreadyDone == "job has already completed"
ErrNotStopped == "job is not stopped"
ErrResume == "failed to resume job"
ErrKill == "failed to kill job"
\* BringToForeground has not returned yet (blocked in Cmd.Wait).
Pending == "pending"

\* No job object.
NoJob == [id |-> 0]

\* No successful KillJob to remember.
NoKill == [id |-> 0, cleaned |-> FALSE]

\* A nil *ParsedCommand.
NoCmd == [Command |-> <<>>, Args |-> <<>>, Background |-> FALSE, nil |-> TRUE]

VARIABLES
    jobs,        \* JobManager.jobs: tracked id -> Job
    jobCounter,  \* JobManager.jobCounter
    exited,      \* tracked ids whose OS process has exited
    now,         \* the wall clock
    pc,          \* the shell-loop thread: "ready" | "waiting" (in Cmd.Wait) | "exited"
    fgJob,       \* the id BringToForeground is waiting on (0: none)
    lastJob,     \* the Job object the last call returned from BringToForeground with
    listed,      \* the jobs the last call listed (GetAllJobs / ListJobs)
    issued,      \* history: every id register has returned
    op,          \* the last operation called
    arg,         \* its job id argument (0: none)
    err,         \* what it returned
    cmd,         \* the ParsedCommand of the last input line (NoCmd: none)
    spawned,     \* whether the last input line started an OS process
    sinceKill,   \* history: the last successful KillJob, if only reads and cleanups followed
    callNo,      \* history: parity of the number of calls and returns so far
    dispatched,  \* history: whether HandleCommand was called for the last input line
    killsIssued, \* history: the ids KillJob was called with by the kill pass that ended the shell
    killsOk,     \* history: those of them for which KillJob returned nil
    sigChan,     \* the signals buffered in the listener's channel (capacity 1)
    listener,    \* the listener goroutine: "recv" (blocked on <-c) | "print" | "done"
    notices,     \* the number of interrupt notices printed
    delivered,   \* the number of signals delivered to the shell
    pureLine,    \* a line given to tokenize or Parse
    pureCmd,     \* a ParsedCommand: the result of Parse, the argument of ValidateCommand
    pureTokens,  \* the result of tokenize
    pureErr,     \* the result of ValidateCommand
    applied      \* the function applied last: "none" | "tokenize" | "parse" | "validate"

\* The signal listener and its channel.
sigVars == <<sigChan, listener, notices, delivered>>

\* The parser and the validator called on their own.
pureVars == <<pureLine, pureCmd, pureTokens, pureErr, applied>>

\* The state of the shell around the Job Table.
shellVars == <<cmd, spawned, dispatched, killsIssued, killsOk, sigVars, pureVars>>

vars == <<jobs, jobCounter, exited, now, pc, fgJob, lastJob, listed, issued, op, arg, err,
          cmd, spawned, sinceKill, callNo, dispatched, killsIssued, killsOk,
          sigChan, listener, notices, delivered,
          pureLine, pureCmd, pureTokens, pureErr, applied>>

Ids == 1..MaxJobs

\* A map with one key deleted (delete(jm.jobs, id)).
Remove(js, id) == [i \in (DOMAIN js) \ {id} |-> js[i]]

\* What a call leaves behind for its caller: its name, argument and error, the
\* Job object it finished with and the listing it produced.
Returns(o, a, e, j, l) ==
    /\ op' = o
    /\ arg' = a
    /\ err' = e
    /\ lastJob' = j
    /\ listed' = l
    /\ callNo' = 1 - callNo
    /\ sinceKill' = IF o = "kill" /\ e = ErrNil THEN [id |-> a, cleaned |-> FALSE]
                    ELSE IF o = "cleanup" /\ sinceKill.id # 0 THEN [sinceKill EXCEPT !.cleaned = TRUE]
                    ELSE IF o \in {"cleanup", "get", "list"} THEN sinceKill
                    ELSE NoKill

\* NewJobManager: an empty map and a counter of 0; no line read yet.
NewJobManager ==
    /\ jobs = [i \in {} |-> NoJob]
    /\ jobCounter = 0
    /\ exited = {}
    /\ now = 1
    /\ pc = "ready"
    /\ fgJob = 0
    /\ lastJob = NoJob
    /\ listed = {}
    /\ issued = {}
    /\ op = "new"
    /\ arg = 0
    /\ err = ErrNil
    /\ callNo = 0
    /\ cmd = NoCmd
    /\ spawned = FALSE
    /\ sinceKill = NoKill
    /\ dispatched = FALSE
    /\ killsIssued = {}
    /\ killsOk = {}

\* setupSignalHandlers: an empty channel and a listener blocked on it.
setupSignalHandlers ==
    /\ sigChan = 0
    /\ listener = "recv"
    /\ notices = 0
    /\ delivered = 0

\* NewShell and the start of Run; the parser has not been called on its own.
Init ==
    /\ NewJobManager
    /\ setupSignalHandlers
    /\ pureLine = <<>>
    /\ pureCmd = NoCmd
    /\ pureTokens = <<>>
    /\ pureErr = ErrNil
    /\ applied = "none"

\* time.Now() moves on.
Tick ==
    /\ now < MaxTime
    /\ now' = now + 1
    /\ UNCHANGED <<jobs, jobCounter, exited, pc, fgJob, lastJob, listed, issued, op, arg, err, sinceKill, callNo, shellVars>>

\* register(processHandle, commandText, background): the next integer id, a new
\* Job with status Running and no endTime, holding the handle of a started process.
Register(background) ==
    /\ pc = "ready"
    /\ jobCounter < MaxJobs
    /\ jobCounter' = jobCounter + 1
    /\ jobs' = [i \in (DOMAIN jobs) \cup {jobCounter + 1} |->
                  IF i = jobCounter + 1
                  THEN [id |-> jobCounter + 1, status |-> JobStatusRunning,
                        endTime |-> NoTime, background |-> background,
                        hasProcess |-> TRUE]
                  ELSE jobs[i]]
    /\ issued' = issued \cup {jobCounter + 1}
    /\ Returns("register", jobCounter + 1, ErrNil, NoJob, {})
    /\ UNCHANGED <<exited, now, pc, fgJob, shellVars>>

\* Running -> Stopped: an external signal suspends the job's process.
Suspend(jobID) ==
    /\ pc = "ready"
    /\ jobID \in DOMAIN jobs
    /\ jobID \notin exited
    /\ jobs[jobID].status = JobStatusRunning
    /\ jobs' = [jobs EXCEPT ![jobID].status = JobStatusStopped]
    /\ Returns("suspend", jobID, ErrNil, NoJob, {})
    /\ UNCHANGED <<jobCounter, exited, now, pc, fgJob, issued, shellVars>>

\* The OS process of a tracked job exits on its own; the table is not told.
ProcessExit(jobID) ==
    /\ pc \in {"ready", "waiting"}
    /\ jobID \in DOMAIN jobs
    /\ jobID \notin exited
    /\ exited' = exited \cup {jobID}
    /\ UNCHANGED <<jobs, jobCounter, now, pc, fgJob, lastJob, listed, issued, op, arg, err, sinceKill, callNo, shellVars>>

\* GetJob: the error of a lookup.
GetJobErr(js, jobID) == IF jobID \in DOMAIN js THEN ErrNil ELSE ErrNotFound

\* Mutant of GetAllJobs: the loop misses the job with the highest id.
GetAllJobs_MissLast(js) ==
    {js[i] : i \in {k \in DOMAIN js : \E m \in DOMAIN js : m > k}}

\* GetAllJobs: every tracked Job, in no order.
GetAllJobs(js) == {js[i] : i \in DOMAIN js}

\* jm.GetJob(jobID)
GetJob(jobID) ==
    /\ pc = "ready"
    /\ Returns("get", jobID, GetJobErr(jobs, jobID), NoJob, {})
    /\ UNCHANGED <<jobs, jobCounter, exited, now, pc, fgJob, issued, shellVars>>

\* jm.GetAllJobs() / jm.ListJobs(): a snapshot of the table, read only.
ListJobs ==
    /\ pc = "ready"
    /\ Returns("list", 0, ErrNil, NoJob, GetAllJobs(jobs))
    /\ UNCHANGED <<jobs, jobCounter, exited, now, pc, fgJob, issued, shellVars>>

\* Mutant of KillJobFn: the status check is missing, so a Done job is killed
\* and stamped again.
KillJobFn_NoDoneCheck(js, jobID, killOk, t) ==
    IF jobID \notin DOMAIN js THEN [jobs |-> js, err |-> ErrNotFound]
    ELSE IF ~killOk THEN [jobs |-> js, err |-> ErrKill]
    ELSE [jobs |-> [js EXCEPT ![jobID].status = JobStatusDone, ![jobID].endTime = t],
          err |-> ErrNil]

\* Mutant of KillJobFn: a killed job is deleted from the table at once.
KillJobFn_Delete(js, jobID, killOk, t) ==
    IF jobID \notin DOMAIN js THEN [jobs |-> js, err |-> ErrNotFound]
    ELSE IF js[jobID].status = JobStatusDone THEN [jobs |-> js, err |-> ErrAlreadyDone]
    ELSE IF ~killOk THEN [jobs |-> js, err |-> ErrKill]
    ELSE [jobs |-> [i \in (DOMAIN js) \ {jobID} |-> js[i]], err |-> ErrNil]

\* Mutant of KillJobFn: the status is set to Done and endTime is left unset.
KillJobFn_NoStamp(js, jobID, killOk, t) ==
    IF jobID \notin DOMAIN js THEN [jobs |-> js, err |-> ErrNotFound]
    ELSE IF js[jobID].status = JobStatusDone THEN [jobs |-> js, err |-> ErrAlreadyDone]
    ELSE IF ~killOk THEN [jobs |-> js, err |-> ErrKill]
    ELSE [jobs |-> [js EXCEPT ![jobID].status = JobStatusDone], err |-> ErrNil]

\* KillJob as a function of the table: the table and the error it leaves.
\* killOk: whether Process.Kill() succeeds.
KillJobFn(js, jobID, killOk, t) ==
    IF GetJobErr(js, jobID) # ErrNil THEN [jobs |-> js, err |-> ErrNotFound]
    ELSE IF js[jobID].status = JobStatusDone THEN [jobs |-> js, err |-> ErrAlreadyDone]
    ELSE IF js[jobID].hasProcess
         THEN IF ~killOk THEN [jobs |-> js, err |-> ErrKill]
              ELSE [jobs |-> [js EXCEPT ![jobID].status = JobStatusDone,
                                        ![jobID].endTime = t],
                    err |-> ErrNil]
         ELSE [jobs |-> js, err |-> ErrNil]

\* Whether KillJob delivers the kill to the job's process.
KillDelivered(js, jobID, killOk) ==
    /\ jobID \in DOMAIN js
    /\ js[jobID].status # JobStatusDone
    /\ js[jobID].hasProcess
    /\ killOk

\* jm.KillJob(jobID)
KillJob(jobID, killOk) ==
    /\ pc = "ready"
    /\ jobs' = KillJobFn(jobs, jobID, killOk, now).jobs
    /\ exited' = IF KillDelivered(jobs, jobID, killOk) THEN exited \cup {jobID} ELSE exited
    /\ Returns("kill", jobID, KillJobFn(jobs, jobID, killOk, now).err, NoJob, {})
    /\ UNCHANGED <<jobCounter, now, pc, fgJob, issued, shellVars>>

\* Mutant of ResumeInBackgroundFn: the job is resumed but its background flag
\* is left as it was.
ResumeInBackgroundFn_KeepFlag(js, jobID, sigOk) ==
    IF jobID \notin DOMAIN js THEN [jobs |-> js, err |-> ErrNotFound]
    ELSE IF js[jobID].status = JobStatusDone THEN [jobs |-> js, err |-> ErrAlreadyDone]
    ELSE IF js[jobID].status # JobStatusStopped THEN [jobs |-> js, err |-> ErrNotStopped]
    ELSE IF ~sigOk THEN [jobs |-> js, err |-> ErrResume]
    ELSE [jobs |-> [js EXCEPT ![jobID].status = JobStatusRunning], err |-> ErrNil]

\* ResumeInBackground as a function of the table.
\* sigOk: whether Process.Signal(SIGCONT) succeeds.
ResumeInBackgroundFn(js, jobID, sigOk) ==
    IF GetJobErr(js, jobID) # ErrNil THEN [jobs |-> js, err |-> ErrNotFound]
    ELSE IF js[jobID].status = JobStatusDone THEN [jobs |-> js, err |-> ErrAlreadyDone]
    ELSE IF js[jobID].status # JobStatusStopped THEN [jobs |-> js, err |-> ErrNotStopped]
    ELSE IF js[jobID].hasProcess
         THEN IF ~sigOk THEN [jobs |-> js, err |-> ErrResume]
              ELSE [jobs |-> [js EXCEPT ![jobID].status = JobStatusRunning,
                                        ![jobID].background = TRUE],
                    err |-> ErrNil]
         ELSE [jobs |-> js, err |-> ErrNil]

\* jm.ResumeInBackground(jobID)
ResumeInBackground(jobID, sigOk) ==
    /\ pc = "ready"
    /\ jobs' = ResumeInBackgroundFn(jobs, jobID, sigOk).jobs
    /\ Returns("bg", jobID, ResumeInBackgroundFn(jobs, jobID, sigOk).err, NoJob, {})
    /\ UNCHANGED <<jobCounter, exited, now, pc, fgJob, issued, shellVars>>

\* Mutant of BringToForegroundFn: status and background are set before the
\* SIGCONT is sent, so a failed delivery leaves them changed.
BringToForegroundFn_Optimistic(js, jobID, sigOk) ==
    IF jobID \notin DOMAIN js THEN [jobs |-> js, err |-> ErrNotFound, wait |-> FALSE]
    ELSE IF js[jobID].status = JobStatusDone
         THEN [jobs |-> js, err |-> ErrAlreadyDone, wait |-> FALSE]
    ELSE IF js[jobID].status = JobStatusStopped /\ ~sigOk
         THEN [jobs |-> [js EXCEPT ![jobID].status = JobStatusRunning,
                                   ![jobID].background = FALSE],
               err |-> ErrResume, wait |-> FALSE]
         ELSE [jobs |-> [js EXCEPT ![jobID].status = JobStatusRunning,
                                   ![jobID].background = FALSE],
               err |-> Pending, wait |-> TRUE]

\* BringToForeground up to its blocking Cmd.Wait(): the checks, the SIGCONT of a
\* stopped job, status = Running and background = false. wait: the call goes
\* on to Cmd.Wait(); otherwise it has returned err.
BringToForegroundFn(js, jobID, sigOk) ==
    IF GetJobErr(js, jobID) # ErrNil THEN [jobs |-> js, err |-> ErrNotFound, wait |-> FALSE]
    ELSE IF js[jobID].status = JobStatusDone
         THEN [jobs |-> js, err |-> ErrAlreadyDone, wait |-> FALSE]
    ELSE IF js[jobID].hasProcess
         THEN IF js[jobID].status = JobStatusStopped /\ ~sigOk
              THEN [jobs |-> js, err |-> ErrResume, wait |-> FALSE]
              ELSE [jobs |-> [js EXCEPT ![jobID].status = JobStatusRunning,
                                        ![jobID].background = FALSE],
                    err |-> Pending, wait |-> TRUE]
         ELSE [jobs |-> Remove(js, jobID), err |-> ErrNil, wait |-> FALSE]

\* The Job object BringToForeground finishes with after Cmd.Wait() returned:
\* status Done and endTime = time.Now().
Completed(job, t) == [job EXCEPT !.status = JobStatusDone, !.endTime = t]

\* jm.BringToForeground(jobID), from the call to Cmd.Wait() or to an early return.
BringToForeground(jobID, sigOk) ==
    /\ pc = "ready"
    /\ jobs' = BringToForegroundFn(jobs, jobID, sigOk).jobs
    /\ pc' = IF BringToForegroundFn(jobs, jobID, sigOk).wait THEN "waiting" ELSE "ready"
    /\ fgJob' = IF BringToForegroundFn(jobs, jobID, sigOk).wait THEN jobID ELSE 0
    /\ exited' = exited \cap DOMAIN jobs'
    /\ Returns("fg", jobID, BringToForegroundFn(jobs, jobID, sigOk).err,
               IF jobID \in DOMAIN jobs /\ jobID \notin DOMAIN jobs' THEN jobs[jobID] ELSE NoJob,
               {})
    /\ UNCHANGED <<jobCounter, now, issued, shellVars>>

\* Mutant of WaitReturns: the call does not wait for the process.
WaitReturns_NoWait(jobID) == TRUE

\* Whether Cmd.Wait() on the job's process can return: the process has exited.
WaitReturns(jobID) == jobID \in exited

\* jm.BringToForeground(jobID), from the return of Cmd.Wait() to the end: the Job
\* is marked Done, stamped, and deleted from the table.
BringToForegroundReturn ==
    /\ pc = "waiting"
    /\ WaitReturns(fgJob)
    /\ jobs' = Remove(jobs, fgJob)
    /\ exited' = exited \ {fgJob}
    /\ pc' = "ready"
    /\ fgJob' = 0
    /\ Returns(op, fgJob, ErrNil, Completed(jobs[fgJob], now), {})
    /\ UNCHANGED <<jobCounter, now, issued, shellVars>>

\* Mutant of CleanupCompletedJobsFn: every job that is not Running is removed.
CleanupCompletedJobsFn_NotRunning(js) ==
    [i \in {k \in DOMAIN js : js[k].status = JobStatusRunning} |-> js[i]]

\* Mutant of CleanupCompletedJobsFn: a job whose process has exited is reaped too.
CleanupCompletedJobsFn_Reap(js) ==
    [i \in {k \in DOMAIN js : js[k].status # JobStatusDone /\ k \notin exited} |-> js[i]]

\* CleanupCompletedJobs as a function of the table.
CleanupCompletedJobsFn(js) ==
    [i \in {k \in DOMAIN js : js[k].status # JobStatusDone} |-> js[i]]

\* Mutant of CleanupCompletedJobs: the counter is reset to the number of jobs left.
CleanupCompletedJobs_ResetCounter ==
    /\ pc = "ready"
    /\ jobs' = CleanupCompletedJobsFn(jobs)
    /\ exited' = exited \cap DOMAIN jobs'
    /\ jobCounter' = Cardinality(DOMAIN jobs')
    /\ Returns("cleanup", 0, ErrNil, NoJob, {})
    /\ UNCHANGED <<now, pc, fgJob, issued, shellVars>>

\* jm.CleanupCompletedJobs()
CleanupCompletedJobs ==
    /\ pc = "ready"
    /\ jobs' = CleanupCompletedJobsFn(jobs)
    /\ exited' = exited \cap DOMAIN jobs'
    /\ Returns("cleanup", 0, ErrNil, NoJob, {})
    /\ UNCHANGED <<jobCounter, now, pc, fgJob, issued, shellVars>>

\* The Job Table under its callers: any sequence of its operations.
Next ==
    \/ Tick
    \/ \E b \in BOOLEAN : Register(b)
    \/ \E i \in Ids : Suspend(i)
    \/ \E i \in Ids : ProcessExit(i)
    \/ \E i \in Ids : GetJob(i)
    \/ ListJobs
    \/ \E i \in Ids, k \in BOOLEAN : KillJob(i, k)
    \/ \E i \in Ids, k \in BOOLEAN : ResumeInBackground(i, k)
    \/ \E i \in Ids, k \in BOOLEAN : BringToForeground(i, k)
    \/ BringToForegroundReturn
    \/ CleanupCompletedJobs

Spec == Init /\ [][Next]_vars

\* ------------------------------------------------------------------ parser

\* Characters are one-character strings and a line is a sequence of them.
\* The characters strings.TrimSpace removes (unicode.IsSpace).
WhiteSpace == {" ", "\t", "\n", "\r", "\f"}

RECURSIVE TrimLeft(_)
\* A string without its leading white space.
TrimLeft(s) ==
    IF s = <<>> THEN s
    ELSE IF Head(s) \in WhiteSpace THEN TrimLeft(Tail(s)) ELSE s

RECURSIVE TrimRight(_)
\* A string without its trailing white space.
TrimRight(s) ==
    IF s = <<>> THEN s
    ELSE IF s[Len(s)] \in WhiteSpace THEN TrimRight(SubSeq(s, 1, Len(s) - 1)) ELSE s

\* strings.TrimSpace
TrimSpace(s) == TrimRight(TrimLeft(s))

\* strings.HasSuffix(s, "&")
HasSuffixAmp(s) == Len(s) > 0 /\ s[Len(s)] = "&"

\* strings.TrimSuffix(s, "&")
TrimSuffixAmp(s) == IF HasSuffixAmp(s) THEN SubSeq(s, 1, Len(s) - 1) ELSE s

\* Mutant of TokenizeStep: inside a quote span either quote character closes it.
TokenizeStep_AnyQuoteCloses(st, char) ==
    IF char \in {"\"", "'"}
    THEN IF ~st.inQuotes
         THEN [st EXCEPT !.inQuotes = TRUE, !.quoteChar = char]
         ELSE [st EXCEPT !.inQuotes = FALSE, !.quoteChar = ""]
    ELSE IF char \in {" ", "\t"}
         THEN IF st.inQuotes
              THEN [st EXCEPT !.current = Append(st.current, char)]
              ELSE IF Len(st.current) > 0
                   THEN [st EXCEPT !.tokens = Append(st.tokens, st.current), !.current = <<>>]
                   ELSE st
    ELSE [st EXCEPT !.current = Append(st.current, char)]

\* Mutant of TokenizeStep: a space or tab outside quotes ends a token even when
\* the token is empty.
TokenizeStep_EmptyTokens(st, char) ==
    IF char \in {"\"", "'"}
    THEN IF ~st.inQuotes
         THEN [st EXCEPT !.inQuotes = TRUE, !.quoteChar = char]
         ELSE IF char = st.quoteChar
              THEN [st EXCEPT !.inQuotes = FALSE, !.quoteChar = ""]
              ELSE [st EXCEPT !.current = Append(st.current, char)]
    ELSE IF char \in {" ", "\t"}
         THEN IF st.inQuotes
              THEN [st EXCEPT !.current = Append(st.current, char)]
              ELSE [st EXCEPT !.tokens = Append(st.tokens, st.current), !.current = <<>>]
    ELSE [st EXCEPT !.current = Append(st.current, char)]

\* Mutant of TokenizeStep: the closing quote ends the token, so a quote span
\* with nothing in it is a token of its own.
TokenizeStep_EmptySpan(st, char) ==
    IF char \in {"\"", "'"}
    THEN IF ~st.inQuotes
         THEN [st EXCEPT !.inQuotes = TRUE, !.quoteChar = char]
         ELSE IF char = st.quoteChar
              THEN [st EXCEPT !.inQuotes = FALSE, !.quoteChar = "",
                              !.tokens = Append(st.tokens, st.current), !.current = <<>>]
              ELSE [st EXCEPT !.current = Append(st.current, char)]
    ELSE IF char \in {" ", "\t"}
         THEN IF st.inQuotes
              THEN [st EXCEPT !.current = Append(st.current, char)]
              ELSE IF Len(st.current) > 0
                   THEN [st EXCEPT !.tokens = Append(st.tokens, st.current), !.current = <<>>]
                   ELSE st
    ELSE [st EXCEPT !.current = Append(st.current, char)]

\* The body of the loop of tokenize: what the character char does to the tokens
\* so far, the token being collected, and the open quote span.
TokenizeStep(st, char) ==
    IF char \in {"\"", "'"}
    THEN IF ~st.inQuotes
         THEN [st EXCEPT !.inQuotes = TRUE, !.quoteChar = char]
         ELSE IF char = st.quoteChar
              THEN [st EXCEPT !.inQuotes = FALSE, !.quoteChar = ""]
              ELSE [st EXCEPT !.current = Append(st.current, char)]
    ELSE IF char \in {" ", "\t"}
         THEN IF st.inQuotes
              THEN [st EXCEPT !.current = Append(st.current, char)]
              ELSE IF Len(st.current) > 0
                   THEN [st EXCEPT !.tokens = Append(st.tokens, st.current), !.current = <<>>]
                   ELSE st
    ELSE [st EXCEPT !.current = Append(st.current, char)]

RECURSIVE TokenizeFrom(_, _, _, _)
\* The loop of tokenize over the characters lo..hi of input, in order, from the
\* loop state st. The range is halved, and the state after the first half is
\* computed before the second half starts, so that long lines do not nest deeply.
TokenizeFrom(input, lo, hi, st) ==
    IF lo > hi THEN st
    ELSE IF lo = hi THEN TokenizeStep(st, input[lo])
    ELSE LET half == TokenizeFrom(input, lo, (lo + hi) \div 2, st)
         IN  IF half.inQuotes \in BOOLEAN
             THEN TokenizeFrom(input, ((lo + hi) \div 2) + 1, hi, half)
             ELSE half

\* cp.tokenize(input): the loop, then the token still being collected.
tokenize(input) ==
    LET st == TokenizeFrom(input, 1, Len(input),
                           [tokens |-> <<>>, current |-> <<>>, inQuotes |-> FALSE,
                            quoteChar |-> ""])
    IN  IF Len(st.current) > 0 THEN Append(st.tokens, st.current) ELSE st.tokens

\* A ParsedCommand.
ParsedCommand(args, background) ==
    [Command |-> args[1], Args |-> args, Background |-> background, nil |-> FALSE]

\* Mutant of Parse: the background marker is noticed but left in the line.
Parse_KeepMarker(input) ==
    IF TrimSpace(input) = <<>> THEN NoCmd
    ELSE IF tokenize(TrimSpace(input)) = <<>> THEN NoCmd
         ELSE ParsedCommand(tokenize(TrimSpace(input)), HasSuffixAmp(TrimSpace(input)))

\* cp.Parse(input)
Parse(input) ==
    IF TrimSpace(input) = <<>> THEN NoCmd
    ELSE IF tokenize(IF HasSuffixAmp(TrimSpace(input))
                     THEN TrimSpace(TrimSuffixAmp(TrimSpace(input)))
                     ELSE TrimSpace(input)) = <<>>
         THEN NoCmd
         ELSE ParsedCommand(tokenize(IF HasSuffixAmp(TrimSpace(input))
                                     THEN TrimSpace(TrimSuffixAmp(TrimSpace(input)))
                                     ELSE TrimSpace(input)),
                            HasSuffixAmp(TrimSpace(input)))

\* The built-in names, as character sequences.
CD == <<"c", "d">>
PWD == <<"p", "w", "d">>
EXIT == <<"e", "x", "i", "t">>
ECHO == <<"e", "c", "h", "o">>
CLEAR == <<"c", "l", "e", "a", "r">>
LS == <<"l", "s">>
CAT == <<"c", "a", "t">>
MKDIR == <<"m", "k", "d", "i", "r">>
RMDIR == <<"r", "m", "d", "i", "r">>
RM == <<"r", "m">>
TOUCH == <<"t", "o", "u", "c", "h">>
KILL == <<"k", "i", "l", "l">>
JOBS == <<"j", "o", "b", "s">>
FG == <<"f", "g">>
BG == <<"b", "g">>
HELP == <<"h", "e", "l", "p">>

\* The names IsBuiltinCommand knows.
Builtins ==
    {CD, PWD, EXIT, ECHO, CLEAR, LS, CAT, MKDIR,
     RMDIR, RM, TOUCH, KILL, JOBS, FG, BG, HELP}

\* cp.IsBuiltinCommand(command)
IsBuiltinCommand(command) == command \in Builtins

\* The limits of ValidateCommand.
MaxCommandLen == 256
MaxArgLen == 1024
MaxArgs == 100

\* The characters ValidateCommand refuses in a command name.
InvalidNameChars == {"|", ";", "&", "<", ">", "(", ")", "{", "}", "[", "]"}

\* Validation errors.
ErrDangerousPath == "potentially dangerous path detected"
ErrInvalidChars == "invalid characters in command name"
ErrNameTooLong == "command name too long"
ErrArgTooLong == "argument too long"
ErrTooManyArgs == "too many arguments"

\* strings.Contains(s, "..")
ContainsDotDot(s) == \E i \in 1..(Len(s) - 1) : s[i] = "." /\ s[i + 1] = "."

\* strings.ContainsAny(s, chars)
ContainsAny(s, chars) == \E i \in 1..Len(s) : s[i] \in chars

\* Mutant of ValidateCommand: the command name is not counted as an argument.
ValidateCommand_OperandsOnly(parsed) ==
    IF parsed.nil \/ parsed.Command = <<>> THEN ErrNil
    ELSE IF ContainsDotDot(parsed.Command) THEN ErrDangerousPath
    ELSE IF ContainsAny(parsed.Command, InvalidNameChars) THEN ErrInvalidChars
    ELSE IF Len(parsed.Command) > MaxCommandLen THEN ErrNameTooLong
    ELSE IF \E i \in 1..Len(parsed.Args) : Len(parsed.Args[i]) > MaxArgLen THEN ErrArgTooLong
    ELSE IF Len(parsed.Args) - 1 > MaxArgs THEN ErrTooManyArgs
    ELSE ErrNil

\* cp.ValidateCommand(parsed): the error it returns (ErrNil: accepted).
ValidateCommand(parsed) ==
    IF parsed.nil \/ parsed.Command = <<>> THEN ErrNil
    ELSE IF ContainsDotDot(parsed.Command) THEN ErrDangerousPath
    ELSE IF ContainsAny(parsed.Command, InvalidNameChars) THEN ErrInvalidChars
    ELSE IF Len(parsed.Command) > MaxCommandLen THEN ErrNameTooLong
    ELSE IF \E i \in 1..Len(parsed.Args) : Len(parsed.Args[i]) > MaxArgLen THEN ErrArgTooLong
    ELSE IF Len(parsed.Args) > MaxArgs THEN ErrTooManyArgs
    ELSE ErrNil

\* ---------------------------------------------------------------- built-ins

\* Errors of the dispatcher and of the built-in handlers.
ErrCmdNotFound == "command not found"
ErrUnsupported == "command not found (only built-in commands are supported)"
ErrMissingJobID == "missing job ID"
ErrJobArgs == "too many arguments (job ID)"
ErrEmptyJobID == "empty job ID"
ErrJobIDNotNumber == "invalid job ID: not a number"
ErrJobIDNotPositive == "invalid job ID: must be positive"
ErrNoJobs == "no jobs"
ErrMissingPID == "kill: missing PID"
ErrKillPIDs == "kill: no process killed"
ErrBuiltinFailed == "built-in failed"

\* The value of a decimal digit.
DigitVal(c) ==
    CASE c = "0" -> 0 [] c = "1" -> 1 [] c = "2" -> 2 [] c = "3" -> 3 [] c = "4" -> 4
      [] c = "5" -> 5 [] c = "6" -> 6 [] c = "7" -> 7 [] c = "8" -> 8 [] c = "9" -> 9

IsDigit(c) == c \in {"0", "1", "2", "3", "4", "5", "6", "7", "8", "9"}

RECURSIVE DigitsVal(_)
\* The number a sequence of digits writes.
DigitsVal(s) ==
    IF s = <<>> THEN 0 ELSE 10 * DigitsVal(SubSeq(s, 1, Len(s) - 1)) + DigitVal(s[Len(s)])

\* strconv.Atoi(s): an optional sign and decimal digits.
Atoi(s) ==
    IF s # <<>> /\ s[1] \in {"+", "-"}
    THEN IF Len(s) > 1 /\ \A i \in 2..Len(s) : IsDigit(s[i])
         THEN [ok |-> TRUE,
               val |-> IF s[1] = "-" THEN 0 - DigitsVal(Tail(s)) ELSE DigitsVal(Tail(s))]
         ELSE [ok |-> FALSE, val |-> 0]
    ELSE IF s # <<>> /\ \A i \in 1..Len(s) : IsDigit(s[i])
         THEN [ok |-> TRUE, val |-> DigitsVal(s)]
         ELSE [ok |-> FALSE, val |-> 0]

\* The checks handleFG and handleBG make on their arguments before they look
\* at the table: the error, or ErrNil with the job id.
JobIDArg(args) ==
    IF Len(args) < 2 THEN [err |-> ErrMissingJobID, id |-> 0]
    ELSE IF Len(args) > 2 THEN [err |-> ErrJobArgs, id |-> 0]
    ELSE IF args[2] = <<>> THEN [err |-> ErrEmptyJobID, id |-> 0]
    ELSE IF ~Atoi(args[2]).ok THEN [err |-> ErrJobIDNotNumber, id |-> 0]
    ELSE IF Atoi(args[2]).val <= 0 THEN [err |-> ErrJobIDNotPositive, id |-> 0]
    ELSE [err |-> ErrNil, id |-> Atoi(args[2]).val]

\* os.Getpid(): the shell's own process id.
ShellPid == 7

\* The arguments of handleKill that pass its checks and reach Process.Kill().
KillablePIDs(args) ==
    {i \in 2..Len(args) :
        /\ args[i] # <<>>
        /\ Atoi(args[i]).ok
        /\ Atoi(args[i]).val > 1
        /\ Atoi(args[i]).val # ShellPid}

\* Mutant of NeedsKill: the kill pass looks for Running jobs only.
NeedsKill_OnlyRunning(job) == job.status = JobStatusRunning

\* The test of the kill passes of handleExit and of shutdown: job.Status != "Done".
NeedsKill(job) == job.status # JobStatusDone

RECURSIVE KillEach(_, _, _, _)
\* The loop of handleExit and of shutdown: KillJob on every job in ids that is
\* not Done. fails: the jobs whose Process.Kill() fails.
KillEach(js, ids, fails, t) ==
    IF ids = {} THEN js
    ELSE LET i == CHOOSE x \in ids : TRUE IN
         KillEach(IF NeedsKill(js[i])
                  THEN KillJobFn(js, js[i].id, i \notin fails, t).jobs
                  ELSE js,
                  ids \ {i}, fails, t)

\* The ids the loop of handleExit and of shutdown calls KillJob with.
KillCalls(js) == {js[i].id : i \in {k \in DOMAIN js : NeedsKill(js[k])}}

\* n copies of the string s, one after the other.
Repeat(s, n) == [i \in 1..(n * Len(s)) |-> s[((i - 1) % Len(s)) + 1]]

\* The line "jobs x x ... x", with one operand more than ValidateCommand allows.
JobsTooManyArgs == JOBS \o Repeat(<<" ", "x">>, MaxArgs)

\* The input lines the shell is given.
Lines ==
    {JobsTooManyArgs,
     <<"f", "g", " ", "1">>,
     <<"f", "g", " ", "2">>,
     <<"f", "g">>,
     <<"f", "g", " ", "x">>,
     <<"b", "g", " ", "1">>,
     <<"b", "g", " ", "2">>,
     <<"j", "o", "b", "s">>,
     <<"k", "i", "l", "l", " ", "2">>,
     <<"k", "i", "l", "l", " ", "1">>,
     <<"k", "i", "l", "l">>,
     <<"e", "x", "i", "t">>,
     <<"l", "s">>,
     <<"c", "l", "e", "a", "r">>,
     <<"e", "c", "h", "o", " ", "h", "i">>,
     <<"f", "o", "o">>,
     <<"s", "l", "e", "e", "p", " ", "5", " ", "&">>,
     <<"c", "d", ".", ".">>,
     <<"a", ";", "b">>,
     <<" ", " ">>,
     <<"&">>}

\* Parse and ValidateCommand over the input lines, computed once.
ParseOf == [input \in Lines |-> Parse(input)]
ValidateOf == [input \in Lines |-> ValidateCommand(Parse(input))]

\* What processInput leaves behind: the parsed command, its result, and whether
\* a process was started for it.
LineDone(parsed, e, a, j, l, sp, handled) ==
    /\ cmd' = parsed
    /\ spawned' = sp
    /\ dispatched' = handled
    /\ Returns("input", a, e, j, l)
    /\ UNCHANGED <<sigVars, pureVars>>

\* processInput returns without calling HandleCommand.
Processed(parsed, e, a, j, l, sp) ==
    /\ LineDone(parsed, e, a, j, l, sp, FALSE)
    /\ UNCHANGED <<killsIssued, killsOk>>

\* processInput returns what a built-in handler returned.
Handled(parsed, e, a, j, l, sp) ==
    /\ LineDone(parsed, e, a, j, l, sp, TRUE)
    /\ UNCHANGED <<killsIssued, killsOk>>

\* Run's loop skips a blank line, and processInput returns nil for a line that
\* parses to no command.
EmptyLine(input) ==
    /\ pc = "ready"
    /\ ParseOf[input] = NoCmd
    /\ Processed(NoCmd, ErrNil, 0, NoJob, {}, FALSE)
    /\ UNCHANGED <<jobs, jobCounter, exited, now, pc, fgJob, issued>>

\* Mutant of RejectedLine: a validation error ends the loop.
RejectedLine_Fatal(input) ==
    /\ pc = "ready"
    /\ ParseOf[input] # NoCmd
    /\ ValidateOf[input] # ErrNil
    /\ pc' = "exited"
    /\ Processed(ParseOf[input], ValidateOf[input], 0, NoJob, {}, FALSE)
    /\ UNCHANGED <<jobs, jobCounter, exited, now, fgJob, issued>>

\* processInput: the Validator rejects the command; Run prints the error and
\* goes on to the next line.
RejectedLine(input) ==
    /\ pc = "ready"
    /\ ParseOf[input] # NoCmd
    /\ ValidateOf[input] # ErrNil
    /\ Processed(ParseOf[input], ValidateOf[input], 0, NoJob, {}, FALSE)
    /\ UNCHANGED <<jobs, jobCounter, exited, now, pc, fgJob, issued>>

\* Mutant of ExternalCommand: a name found on the path is run as a job.
ExternalCommand_Run(parsed, onPath) ==
    /\ jobCounter < MaxJobs \/ ~onPath
    /\ jobs' = IF onPath
               THEN [i \in (DOMAIN jobs) \cup {jobCounter + 1} |->
                       IF i = jobCounter + 1
                       THEN [id |-> jobCounter + 1, status |-> JobStatusRunning,
                             endTime |-> NoTime, background |-> parsed.Background,
                             hasProcess |-> TRUE]
                       ELSE jobs[i]]
               ELSE jobs
    /\ jobCounter' = IF onPath THEN jobCounter + 1 ELSE jobCounter
    /\ issued' = IF onPath THEN issued \cup {jobCounter + 1} ELSE issued
    /\ Processed(parsed, IF onPath THEN ErrNil ELSE ErrCmdNotFound, 0, NoJob, {}, onPath)
    /\ UNCHANGED <<exited, now, pc, fgJob>>

\* processInput for a valid command that is no built-in: an error either way.
\* onPath: whether exec.LookPath finds a binary of that name.
ExternalCommand(parsed, onPath) ==
    /\ Processed(parsed, IF onPath THEN ErrUnsupported ELSE ErrCmdNotFound, 0, NoJob, {}, FALSE)
    /\ UNCHANGED <<jobs, jobCounter, exited, now, pc, fgJob, issued>>

\* The built-ins that do not touch the Job Table (cd, pwd, echo, clear, ls, cat,
\* mkdir, rmdir, rm, touch, help). ok: whether the file system lets it succeed.
handleOther(parsed, ok) ==
    /\ parsed.Command \in Builtins \ {EXIT, KILL, JOBS, FG, BG}
    /\ Handled(parsed,
                 IF ok \/ parsed.Command \in {ECHO, HELP} THEN ErrNil ELSE ErrBuiltinFailed,
                 0, NoJob, {}, parsed.Command = CLEAR)
    /\ UNCHANGED <<jobs, jobCounter, exited, now, pc, fgJob, issued>>

\* handleExit: KillJob on every job that is not Done, then os.Exit(0).
handleExit(parsed, fails) ==
    /\ parsed.Command = EXIT
    /\ jobs' = KillEach(jobs, DOMAIN jobs, fails, now)
    /\ exited' = exited \cup {i \in KillCalls(jobs) : KillDelivered(jobs, i, i \notin fails)}
    /\ killsIssued' = KillCalls(jobs)
    /\ killsOk' = {i \in KillCalls(jobs) : KillJobFn(jobs, i, i \notin fails, now).err = ErrNil}
    /\ pc' = "exited"
    /\ LineDone(parsed, ErrNil, 0, NoJob, {}, FALSE, TRUE)
    /\ UNCHANGED <<jobCounter, now, fgJob, issued>>

\* Mutant of handleKill: the arguments are job ids and each goes to KillJob.
handleKill_ViaJobTable(parsed, hit, victims) ==
    LET id == JobIDArg(parsed.Args).id
        r == KillJobFn(jobs, id, TRUE, now)
    IN  /\ parsed.Command = KILL
        /\ hit = {}
        /\ victims = {}
        /\ jobs' = r.jobs
        /\ exited' = IF KillDelivered(jobs, id, TRUE) THEN exited \cup {id} ELSE exited
        /\ Handled(parsed, r.err, id, NoJob, {}, FALSE)
        /\ UNCHANGED <<jobCounter, now, pc, fgJob, issued>>

\* handleKill: Process.Kill() on every argument that is a pid other than init's
\* and the shell's own. hit: the arguments whose kill succeeds; victims: the
\* tracked jobs whose processes those pids were.
handleKill(parsed, hit, victims) ==
    /\ parsed.Command = KILL
    /\ hit \subseteq KillablePIDs(parsed.Args)
    /\ victims \subseteq (DOMAIN jobs) \ exited
    /\ Cardinality(victims) <= Cardinality(hit)
    /\ exited' = exited \cup victims
    /\ Handled(parsed,
                 IF Len(parsed.Args) < 2 THEN ErrMissingPID
                 ELSE IF hit = {} THEN ErrKillPIDs
                 ELSE ErrNil,
                 0, NoJob, {}, FALSE)
    /\ UNCHANGED <<jobs, jobCounter, now, pc, fgJob, issued>>

\* Mutant of handleJobs: ListJobs, then CleanupCompletedJobs.
handleJobs_ListFirst(parsed) ==
    /\ parsed.Command = JOBS
    /\ jobs' = CleanupCompletedJobsFn(jobs)
    /\ exited' = exited \cap DOMAIN jobs'
    /\ Handled(parsed, ErrNil, 0, NoJob, GetAllJobs(jobs), FALSE)
    /\ UNCHANGED <<jobCounter, now, pc, fgJob, issued>>

\* handleJobs: CleanupCompletedJobs, then ListJobs.
handleJobs(parsed) ==
    /\ parsed.Command = JOBS
    /\ jobs' = CleanupCompletedJobsFn(jobs)
    /\ exited' = exited \cap DOMAIN jobs'
    /\ Handled(parsed, ErrNil, 0, NoJob, GetAllJobs(CleanupCompletedJobsFn(jobs)), FALSE)
    /\ UNCHANGED <<jobCounter, now, pc, fgJob, issued>>

\* handleFG: the argument checks, the empty-table check, BringToForeground.
handleFG(parsed, sigOk) ==
    LET a == JobIDArg(parsed.Args)
        r == BringToForegroundFn(jobs, a.id, sigOk)
    IN  /\ parsed.Command = FG
        /\ IF a.err # ErrNil
           THEN /\ Handled(parsed, a.err, 0, NoJob, {}, FALSE)
                /\ UNCHANGED <<jobs, exited, pc, fgJob>>
           ELSE IF GetAllJobs(jobs) = {}
           THEN /\ Handled(parsed, ErrNoJobs, a.id, NoJob, {}, FALSE)
                /\ UNCHANGED <<jobs, exited, pc, fgJob>>
           ELSE /\ jobs' = r.jobs
                /\ pc' = IF r.wait THEN "waiting" ELSE "ready"
                /\ fgJob' = IF r.wait THEN a.id ELSE 0
                /\ exited' = exited \cap DOMAIN jobs'
                /\ Handled(parsed, r.err, a.id,
                             IF a.id \in DOMAIN jobs /\ a.id \notin DOMAIN r.jobs
                             THEN jobs[a.id] ELSE NoJob,
                             {}, FALSE)
        /\ UNCHANGED <<jobCounter, now, issued>>

\* handleBG: the argument checks, the empty-table check, ResumeInBackground.
handleBG(parsed, sigOk) ==
    LET a == JobIDArg(parsed.Args)
        r == ResumeInBackgroundFn(jobs, a.id, sigOk)
    IN  /\ parsed.Command = BG
        /\ IF a.err # ErrNil
           THEN /\ Handled(parsed, a.err, 0, NoJob, {}, FALSE)
                /\ UNCHANGED jobs
           ELSE IF GetAllJobs(jobs) = {}
           THEN /\ Handled(parsed, ErrNoJobs, a.id, NoJob, {}, FALSE)
                /\ UNCHANGED jobs
           ELSE /\ jobs' = r.jobs
                /\ Handled(parsed, r.err, a.id, NoJob, {}, FALSE)
        /\ UNCHANGED <<jobCounter, exited, now, pc, fgJob, issued>>

\* ch.HandleCommand(parsed): the switch on the command name.
HandleCommand(parsed) ==
    \/ \E ok \in BOOLEAN : handleOther(parsed, ok)
    \/ \E fails \in SUBSET DOMAIN jobs : handleExit(parsed, fails)
    \/ \E hit \in SUBSET KillablePIDs(parsed.Args), victims \in SUBSET DOMAIN jobs :
          handleKill(parsed, hit, victims)
    \/ handleJobs(parsed)
    \/ \E sigOk \in BOOLEAN : handleFG(parsed, sigOk)
    \/ \E sigOk \in BOOLEAN : handleBG(parsed, sigOk)

\* Mutant of ProcessInput: a built-in is dispatched without being validated.
ProcessInput_Unvalidated(input) ==
    /\ pc = "ready"
    /\ ParseOf[input] # NoCmd
    /\ IF IsBuiltinCommand(ParseOf[input].Command)
       THEN HandleCommand(ParseOf[input])
       ELSE /\ ValidateOf[input] = ErrNil
            /\ \E onPath \in BOOLEAN : ExternalCommand(ParseOf[input], onPath)

\* s.processInput(input) for a line that parses to a command the Validator
\* accepts: a built-in goes to its handler, anything else is an error.
ProcessInput(input) ==
    /\ pc = "ready"
    /\ ParseOf[input] # NoCmd
    /\ ValidateOf[input] = ErrNil
    /\ IF IsBuiltinCommand(ParseOf[input].Command)
       THEN HandleCommand(ParseOf[input])
       ELSE \E onPath \in BOOLEAN : ExternalCommand(ParseOf[input], onPath)

\* Run when scanner.Scan() returns false (the input has ended, or reading it
\* failed): the loop breaks and shutdown runs KillJob on every job that is not
\* Done, then Run returns. fails: the jobs whose Process.Kill() fails.
EndOfInput(fails) ==
    /\ pc = "ready"
    /\ jobs' = KillEach(jobs, DOMAIN jobs, fails, now)
    /\ exited' = exited \cup {i \in KillCalls(jobs) : KillDelivered(jobs, i, i \notin fails)}
    /\ killsIssued' = KillCalls(jobs)
    /\ killsOk' = {i \in KillCalls(jobs) : KillJobFn(jobs, i, i \notin fails, now).err = ErrNil}
    /\ pc' = "exited"
    /\ Returns("eof", 0, ErrNil, NoJob, {})
    /\ UNCHANGED <<jobCounter, now, fgJob, issued, cmd, spawned, dispatched, sigVars, pureVars>>

\* The shell loop over a Job Table that holds registered jobs, some of them
\* suspended from outside or killed through the table by the code that
\* registered them. All of it happens within one reading of the clock: what
\* the loop does never depends on the time, which only stamps endTime.
ShellNext ==
    \/ \E b \in BOOLEAN : jobCounter < MaxShellJobs /\ Register(b)
    \/ \E i \in Ids : Suspend(i)
    \/ \E i \in Ids : ProcessExit(i)
    \/ \E i \in Ids, k \in BOOLEAN : KillJob(i, k)
    \/ \E input \in Lines : EmptyLine(input)
    \/ \E input \in Lines : RejectedLine(input)
    \/ \E input \in Lines : ProcessInput(input)
    \/ BringToForegroundReturn
    \/ \E fails \in SUBSET DOMAIN jobs : EndOfInput(fails)

ShellSpec == Init /\ [][ShellNext]_vars

\* ------------------------------------------- the parser called on its own

\* The characters of the lines the parser is given.
Alphabet == {"a", " ", "\t", "&", "\"", "'"}

\* Every line over Alphabet of at most MaxLineLen characters.
AllLines == UNION {[1..n -> Alphabet] : n \in 0..MaxLineLen}

\* Longer lines, and lines with other white space in them.
ExampleLines ==
    {<<"s", "l", "e", "e", "p", " ", "5", " ", "&">>,
     <<"a", " ", "\"", "b", " ", "c", "\"", " ", "d">>,
     <<"a", " ", "\"", "b", " ", "c">>,
     <<"a", " ", "'", "b", "\"", " ", "c", "'", "\t", "\"", "d", "'">>,
     <<"a", "\f", "b">>,
     <<"\r", "a", "\r", "b", " ", "c", " ", "\f", "&", "\n">>,
     <<"l", "s", " ", "&", "&">>}

PureLines == AllLines \cup ExampleLines

\* Command names around the limit of ValidateCommand, and names it refuses.
SampleNames ==
    {<<>>, <<"o", "k">>, <<"c", "d", ".", ".">>, <<".", ".">>}
       \cup {<<"a", c>> : c \in InvalidNameChars}
       \cup {Repeat(<<"a">>, n) : n \in (MaxCommandLen - 1)..(MaxCommandLen + PastLimit)}

\* Operand lists: none, one operand around the length limit, or as many short
\* operands as make the argument count come near its limit.
SampleOperands ==
    {<<>>}
       \cup {<<Repeat(<<"x">>, m)>> : m \in (MaxArgLen - 1)..(MaxArgLen + PastLimit)}
       \cup {Repeat(<<<<"x">>>>, k) : k \in (MaxArgs - 2)..(MaxArgs - 1 + PastLimit)}

\* ParsedCommand values built by hand, and the nil command.
SampleCommands ==
    {NoCmd} \cup {[Command |-> n, Args |-> <<n>> \o o, Background |-> FALSE, nil |-> FALSE] :
                    n \in SampleNames, o \in SampleOperands}

\* A line for tokenize and Parse, or a command for ValidateCommand.
PureInit ==
    /\ NewJobManager
    /\ setupSignalHandlers
    /\ \/ pureLine \in PureLines /\ pureCmd = NoCmd
       \/ pureLine = <<>> /\ pureCmd \in SampleCommands
    /\ pureTokens = <<>>
    /\ pureErr = ErrNil
    /\ applied = "none"

\* What a call of the parser or of the validator leaves alone: all of the shell.
ShellUnchanged ==
    UNCHANGED <<jobs, jobCounter, exited, now, pc, fgJob, lastJob, listed, issued, op, arg, err,
                cmd, spawned, sinceKill, callNo, dispatched, killsIssued, killsOk, sigVars>>

\* cp.tokenize(pureLine)
ApplyTokenize ==
    /\ applied = "none"
    /\ pureCmd = NoCmd
    /\ pureTokens' = tokenize(pureLine)
    /\ applied' = "tokenize"
    /\ UNCHANGED <<pureLine, pureCmd, pureErr>>
    /\ ShellUnchanged

\* cp.Parse(pureLine)
ApplyParse ==
    /\ applied = "none"
    /\ pureCmd = NoCmd
    /\ pureCmd' = Parse(pureLine)
    /\ applied' = "parse"
    /\ UNCHANGED <<pureLine, pureTokens, pureErr>>
    /\ ShellUnchanged

\* cp.ValidateCommand(pureCmd), on a command built by hand or returned by Parse.
ApplyValidate ==
    /\ applied \in {"none", "parse"}
    /\ pureErr' = ValidateCommand(pureCmd)
    /\ applied' = "validate"
    /\ UNCHANGED <<pureLine, pureCmd, pureTokens>>
    /\ ShellUnchanged

PureNext ==
    \/ ApplyTokenize
    \/ ApplyParse
    \/ ApplyValidate

PureSpec == PureInit /\ [][PureNext]_vars

\* ----------------------------------------------------------------- signals

\* What a step of the signal listener, or the delivery of a signal, leaves alone.
LoopUnchanged ==
    UNCHANGED <<jobs, jobCounter, exited, now, pc, fgJob, lastJob, listed, issued, op, arg, err,
                cmd, spawned, sinceKill, callNo, dispatched, killsIssued, killsOk, pureVars>>

\* An interrupt or a termination signal is delivered to the shell process:
\* signal.Notify has the runtime send it on c without blocking, so it is
\* buffered if the one slot of c is free and dropped otherwise.
Signal ==
    /\ pc # "exited"
    /\ delivered < MaxSignals
    /\ delivered' = delivered + 1
    /\ sigChan' = 1
    /\ UNCHANGED <<listener, notices>>
    /\ LoopUnchanged

\* The listener goroutine: <-c returns.
ListenerReceive ==
    /\ pc # "exited"
    /\ listener = "recv"
    /\ sigChan = 1
    /\ sigChan' = 0
    /\ listener' = "print"
    /\ UNCHANGED <<notices, delivered>>
    /\ LoopUnchanged

\* Mutant of ListenerPrint: the listener shuts the shell down itself, killing
\* every job that is not Done.
ListenerPrint_Shutdown ==
    /\ pc # "exited"
    /\ listener = "print"
    /\ notices' = notices + 1
    /\ listener' = "done"
    /\ jobs' = KillEach(jobs, DOMAIN jobs, {}, now)
    /\ exited' = exited \cup KillCalls(jobs)
    /\ UNCHANGED <<sigChan, delivered>>
    /\ UNCHANGED <<jobCounter, now, pc, fgJob, lastJob, listed, issued, op, arg, err,
                   cmd, spawned, sinceKill, callNo, dispatched, killsIssued, killsOk, pureVars>>

\* The listener goroutine: the notice is printed and the function returns.
ListenerPrint ==
    /\ pc # "exited"
    /\ listener = "print"
    /\ notices' = notices + 1
    /\ listener' = "done"
    /\ UNCHANGED <<sigChan, delivered>>
    /\ LoopUnchanged

\* The shell as wired: NewShell, then Run over any input lines and signals.
\* Nothing registers a job.
WiredNext ==
    \/ Tick
    \/ \E input \in Lines : EmptyLine(input)
    \/ \E input \in Lines : RejectedLine(input)
    \/ \E input \in Lines : ProcessInput(input)
    \/ \E fails \in SUBSET DOMAIN jobs : EndOfInput(fails)
    \/ Signal
    \/ ListenerReceive
    \/ ListenerPrint

WiredSpec == Init /\ [][WiredNext]_vars

\* The lines of Lines that reach the Job Table or end the loop.
JobControlLines ==
    {<<"f", "g", " ", "1">>,
     <<"b", "g", " ", "1">>,
     <<"j", "o", "b", "s">>,
     <<"e", "x", "i", "t">>}

\* The shell loop over a Job Table that holds registered jobs, with signals
\* delivered and the listener goroutine running at any point in between.
ConcurrentNext ==
    \/ \E b \in BOOLEAN : jobCounter < MaxShellJobs /\ Register(b)
    \/ \E i \in Ids : Suspend(i)
    \/ \E i \in Ids : ProcessExit(i)
    \/ \E input \in JobControlLines : ProcessInput(input)
    \/ BringToForegroundReturn
    \/ \E fails \in SUBSET DOMAIN jobs : EndOfInput(fails)
    \/ Signal
    \/ ListenerReceive
    \/ ListenerPrint

ConcurrentSpec == Init /\ [][ConcurrentNext]_vars

\* ------------------------------------------------------------------ claims

\* A step in which an operation is called or returns.
CallStep == callNo' # callNo

\* C1: Done is terminal. A tracked job whose status is Done keeps its status,
\* endTime and background flag across every step; BringToForeground,
\* ResumeInBackground and KillJob on it return AlreadyDone; and the only step
\* that takes it out of the table is CleanupCompletedJobs.
C1_DoneIsTerminal ==
    [][\A i \in DOMAIN jobs :
         jobs[i].status = JobStatusDone =>
            /\ i \in DOMAIN jobs' => jobs'[i] = jobs[i]
            /\ i \notin DOMAIN jobs' => op' = "cleanup"
            /\ (CallStep /\ op' \in {"fg", "bg", "kill"} /\ arg' = i)
                  => err' = ErrAlreadyDone]_vars

\* C1 witness: BringToForeground was called on a Done job, which is still tracked.
C1_Witness ==
    /\ op = "fg"
    /\ err = ErrAlreadyDone
    /\ arg \in DOMAIN jobs
    /\ jobs[arg].status = JobStatusDone

\* C2: a Job Table operation that returns an error (NotFound, AlreadyDone,
\* NotStopped, a failed signal delivery) leaves the table as it was.
C2_ErrorLeavesTable ==
    [][(CallStep /\ op' \in {"fg", "bg", "kill"} /\ err' \notin {ErrNil, Pending})
          => jobs' = jobs]_vars

\* C2 witness: BringToForeground failed to deliver SIGCONT to a stopped job,
\* which is still Stopped.
C2_Witness ==
    /\ op = "fg"
    /\ err = ErrResume
    /\ arg \in DOMAIN jobs
    /\ jobs[arg].status = JobStatusStopped

\* C3: a KillJob that returns success leaves the job in the table with status
\* Done and endTime set, and the KillJob on the same id that follows it returns
\* AlreadyDone.
C3_KillThenKill ==
    [][/\ (CallStep /\ op' = "kill" /\ err' = ErrNil)
            => /\ arg' \in DOMAIN jobs
               /\ jobs[arg'].status # JobStatusDone
               /\ arg' \in DOMAIN jobs'
               /\ jobs'[arg'].status = JobStatusDone
               /\ jobs'[arg'].endTime # NoTime
       /\ (CallStep /\ op = "kill" /\ err = ErrNil /\ op' = "kill" /\ arg' = arg)
            => err' = ErrAlreadyDone]_vars

\* C3 witness: a second KillJob on a killed job returned AlreadyDone.
C3_Witness ==
    /\ op = "kill"
    /\ err = ErrAlreadyDone
    /\ arg \in DOMAIN jobs
    /\ jobs[arg].endTime # NoTime

\* C4: BringToForeground returns success only from its wait, after the job's
\* process has exited; the job is then Done with endTime set and is no longer in
\* the table. No job leaves the table through BringToForeground otherwise.
C4_ForegroundWaits ==
    [][/\ (CallStep /\ op' = "fg" /\ err' = ErrNil)
            => /\ pc = "waiting"
               /\ fgJob = arg'
               /\ arg' \in exited
               /\ lastJob'.id = arg'
               /\ lastJob'.status = JobStatusDone
               /\ lastJob'.endTime # NoTime
               /\ arg' \notin DOMAIN jobs'
       /\ \A i \in (DOMAIN jobs) \ (DOMAIN jobs') :
            op' = "fg" => (pc = "waiting" /\ fgJob = i /\ i \in exited)]_vars

\* C4 witness: a BringToForeground has returned success and its job is gone.
C4_Witness ==
    /\ op = "fg"
    /\ err = ErrNil
    /\ pc = "ready"
    /\ lastJob.id = arg
    /\ lastJob.status = JobStatusDone
    /\ arg \notin DOMAIN jobs

\* C5: ResumeInBackground on a Running job fails with NotStopped; on a Stopped
\* job, when it returns success, the job is still tracked, Running and in the
\* background.
C5_ResumeInBackground ==
    [][(CallStep /\ op' = "bg" /\ arg' \in DOMAIN jobs)
          => /\ jobs[arg'].status = JobStatusRunning => err' = ErrNotStopped
             /\ (jobs[arg'].status = JobStatusStopped /\ err' = ErrNil)
                  => /\ arg' \in DOMAIN jobs'
                     /\ jobs'[arg'].status = JobStatusRunning
                     /\ jobs'[arg'].background = TRUE]_vars

\* C5 witness: a job was resumed in the background.
C5_Witness ==
    /\ op = "bg"
    /\ err = ErrNil
    /\ arg \in DOMAIN jobs
    /\ jobs[arg].status = JobStatusRunning
    /\ jobs[arg].background = TRUE

\* C6: CleanupCompletedJobs removes all and only the Done jobs: afterwards no
\* tracked job is Done, and every job that was not Done is tracked as before.
C6_CleanupAllAndOnlyDone ==
    [][(CallStep /\ op' = "cleanup")
          => /\ \A i \in DOMAIN jobs' : jobs'[i].status # JobStatusDone
             /\ DOMAIN jobs' \subseteq DOMAIN jobs
             /\ \A i \in DOMAIN jobs :
                  jobs[i].status # JobStatusDone
                     => (i \in DOMAIN jobs' /\ jobs'[i] = jobs[i])]_vars

\* C6 witness: a cleanup has run, it removed job 1 and kept a Stopped job 2.
C6_Witness ==
    /\ op = "cleanup"
    /\ DOMAIN jobs = {2}
    /\ jobs[2].status = JobStatusStopped

\* C7: after a successful KillJob(k), CleanupCompletedJobs leaves GetJob(k)
\* NotFound and GetAllJobs equal to the other jobs that were tracked and not
\* Done; while only reads and cleanups follow, GetJob(k) returns NotFound and a
\* listing holds exactly the tracked jobs, none of them k or Done.
C7_KillCleanupList ==
    [][/\ (CallStep /\ op = "kill" /\ err = ErrNil /\ op' = "cleanup")
            => /\ GetJobErr(jobs', arg) = ErrNotFound
               /\ GetAllJobs(jobs')
                    = {jobs[i] : i \in {k \in DOMAIN jobs :
                                          k # arg /\ jobs[k].status # JobStatusDone}}
       /\ (CallStep /\ sinceKill'.cleaned /\ op' = "get" /\ arg' = sinceKill'.id)
            => err' = ErrNotFound
       /\ (CallStep /\ sinceKill'.cleaned /\ op' = "list")
            => /\ {j.id : j \in listed'} = DOMAIN jobs
               /\ \A j \in listed' :
                    j = jobs[j.id] /\ j.id # sinceKill'.id /\ j.status # JobStatusDone]_vars

\* C7 witness: two jobs were registered, KillJob(2) succeeded, a cleanup ran,
\* and the listing that followed holds exactly job 1.
C7_Witness ==
    /\ jobCounter = 2
    /\ sinceKill = [id |-> 2, cleaned |-> TRUE]
    /\ op = "list"
    /\ {j.id : j \in listed} = {1}

\* C8: register inserts a new Running job under an id greater than every id
\* handed out before (also those of removed jobs), and every record sits under
\* its own id.
C8_RegisterIds ==
    [][/\ (CallStep /\ op' = "register")
            => /\ arg' \notin issued
               /\ \A i \in issued : arg' > i
               /\ DOMAIN jobs' = (DOMAIN jobs) \cup {arg'}
               /\ arg' \notin DOMAIN jobs
               /\ jobs'[arg'].status = JobStatusRunning
               /\ \A i \in DOMAIN jobs : jobs'[i] = jobs[i]
       /\ \A i \in DOMAIN jobs' : jobs'[i].id = i]_vars

\* C8 witness: job 2 was registered after job 1 had been removed.
C8_Witness ==
    /\ op = "register"
    /\ arg = 2
    /\ DOMAIN jobs = {2}

\* C9: a status becomes Done only by KillJob or BringToForeground on that job;
\* a Running job whose process has exited is left as it is, and in the table,
\* by GetJob, ListJobs, CleanupCompletedJobs and ResumeInBackground, and by the
\* exit itself.
C9_NoReaper ==
    [][/\ \A i \in DOMAIN jobs' :
            (jobs'[i].status = JobStatusDone
               /\ (i \notin DOMAIN jobs \/ jobs[i].status # JobStatusDone))
              => (op' = "kill" /\ arg' = i)
       /\ (lastJob' # lastJob /\ lastJob' # NoJob /\ lastJob'.status = JobStatusDone)
              => (op' = "fg" /\ arg' = lastJob'.id)
       /\ \A i \in DOMAIN jobs :
            (jobs[i].status = JobStatusRunning
               /\ \/ (~CallStep /\ i \in exited')
                  \/ (i \in exited /\ op' \in {"get", "list", "cleanup", "bg"}))
              => (i \in DOMAIN jobs' /\ jobs'[i] = jobs[i])]_vars

\* C9 witness: a cleanup has run over a Running job whose process had exited.
C9_Witness ==
    /\ op = "cleanup"
    /\ \E i \in DOMAIN jobs : i \in exited /\ jobs[i].status = JobStatusRunning

\* C10: a line whose command passes validation and is none of the 16 built-in
\* names gets an error from processInput (command not found), whether or not
\* the name resolves on the path; no process is started and the Job Table is
\* as it was.
C10_ExternalNotFound ==
    [][(CallStep /\ op' = "input" /\ cmd' # NoCmd /\ ValidateCommand(cmd') = ErrNil
          /\ cmd'.Command \notin Builtins)
          => /\ Cardinality(Builtins) = 16
             /\ err' \in {ErrCmdNotFound, ErrUnsupported}
             /\ spawned' = FALSE
             /\ jobs' = jobs
             /\ jobCounter' = jobCounter
             /\ exited' = exited
             /\ pc' = pc]_vars

\* C10 witness: a name that resolves on the path was refused while jobs were
\* tracked.
C10_Witness ==
    /\ op = "input"
    /\ err = ErrUnsupported
    /\ cmd.Command \notin Builtins
    /\ DOMAIN jobs # {}

\* C11 as claimed: the kill built-in given the id of a tracked job that is not
\* Done leaves that job Done.
C11_KillBuiltinMarksDone ==
    [][(CallStep /\ pc = "ready" /\ op' = "input" /\ dispatched' /\ cmd'.Command = KILL
          /\ Len(cmd'.Args) = 2 /\ JobIDArg(cmd'.Args).err = ErrNil
          /\ JobIDArg(cmd'.Args).id \in DOMAIN jobs
          /\ jobs[JobIDArg(cmd'.Args).id].status # JobStatusDone)
          => /\ JobIDArg(cmd'.Args).id \in DOMAIN jobs'
             /\ jobs'[JobIDArg(cmd'.Args).id].status = JobStatusDone]_vars

\* C11: jobs, fg and bg act through the Job Table: jobs leaves the table as
\* CleanupCompletedJobs does and lists what is left; fg and bg, once their
\* argument is a positive number and the table is not empty, leave the table and
\* return the error as BringToForeground and ResumeInBackground do. The kill
\* built-in takes process ids and kills those processes itself: it never changes
\* the table, not even when the process it killed was a tracked job's.
C11_BuiltinsAndTable ==
    [][(CallStep /\ pc = "ready" /\ op' = "input" /\ dispatched')
          => /\ cmd'.Command = KILL => (jobs' = jobs /\ pc' = "ready")
             /\ cmd'.Command = JOBS
                  => /\ jobs' = CleanupCompletedJobsFn(jobs)
                     /\ listed' = GetAllJobs(jobs')
                     /\ \A j \in listed' : j.status # JobStatusDone
             /\ (cmd'.Command = FG /\ JobIDArg(cmd'.Args).err = ErrNil /\ DOMAIN jobs # {})
                  => \E sigOk \in BOOLEAN :
                        /\ jobs' = BringToForegroundFn(jobs, arg', sigOk).jobs
                        /\ err' = BringToForegroundFn(jobs, arg', sigOk).err
                        /\ arg' = JobIDArg(cmd'.Args).id
             /\ (cmd'.Command = BG /\ JobIDArg(cmd'.Args).err = ErrNil /\ DOMAIN jobs # {})
                  => \E sigOk \in BOOLEAN :
                        /\ jobs' = ResumeInBackgroundFn(jobs, arg', sigOk).jobs
                        /\ err' = ResumeInBackgroundFn(jobs, arg', sigOk).err
                        /\ arg' = JobIDArg(cmd'.Args).id]_vars

\* C11 witness: the kill built-in killed the process of tracked job 1, and the
\* job is still Running in the table.
C11_Witness ==
    /\ op = "input"
    /\ cmd.Command = KILL
    /\ err = ErrNil
    /\ 1 \in DOMAIN jobs
    /\ 1 \in exited
    /\ jobs[1].status = JobStatusRunning

\* C12 as claimed: every signal delivered while the loop runs, the first and
\* each later one, reaches a listener that prints a notice for it, and none
\* ends the loop.
C12_EverySignalNoticed ==
    [][(pc # "exited" /\ delivered' > delivered)
          => /\ pc' = pc
             /\ listener' \in {"recv", "print"}]_vars

\* C13: the shell ends only by the exit built-in or by the end of input, and the
\* step that ends it calls KillJob for every tracked job that is not Done and
\* for no job that is Done; afterwards every job whose KillJob succeeded is Done
\* with its endTime set, and every other job is as it was.
C13_KillPassOnExit ==
    [][(pc # "exited" /\ pc' = "exited")
          => /\ \/ (op' = "input" /\ cmd'.Command = EXIT)
                \/ op' = "eof"
             /\ killsIssued' = {i \in DOMAIN jobs : jobs[i].status # JobStatusDone}
             /\ killsOk' \subseteq killsIssued'
             /\ DOMAIN jobs' = DOMAIN jobs
             /\ \A i \in killsOk' :
                   jobs'[i].status = JobStatusDone /\ jobs'[i].endTime # NoTime
             /\ \A i \in (DOMAIN jobs) \ killsOk' : jobs'[i] = jobs[i]]_vars

\* C13 witness: the input ended while job 1 was Stopped; shutdown killed it.
C13_Witness ==
    /\ pc = "exited"
    /\ op = "eof"
    /\ killsIssued = {1}
    /\ killsOk = {1}
    /\ jobs[1].status = JobStatusDone
    /\ sinceKill = NoKill

\* C14: a line that ends in an error (from the validator, from a built-in or
\* for a command that is no built-in) leaves the loop ready to read the next
\* line; the loop ends only in the exit built-in or when the input ends, and the
\* end of input runs the kill pass of shutdown.
C14_NoErrorIsFatal ==
    [][/\ (CallStep /\ pc = "ready" /\ op' = "input" /\ err' \notin {ErrNil, Pending})
            => pc' = "ready"
       /\ (pc # "exited" /\ pc' = "exited")
            => \/ (op' = "input" /\ dispatched' /\ cmd'.Command = EXIT /\ err' = ErrNil)
               \/ (op' = "eof" /\ pc = "ready")
       /\ (CallStep /\ op' = "eof")
            => /\ pc' = "exited"
               /\ killsIssued' = KillCalls(jobs)
               /\ jobs' = KillEach(jobs, DOMAIN jobs, (DOMAIN jobs) \ killsOk', now)]_vars

\* C14 witness: a built-in returned an error (fg of an id that is not tracked)
\* and the loop is still reading.
C14_Witness ==
    /\ pc = "ready"
    /\ op = "input"
    /\ dispatched
    /\ cmd.Command = FG
    /\ err = ErrNotFound
    /\ DOMAIN jobs # {}

\* C15: when the Validator rejects the command of a line, no built-in handler
\* is called for that line, the Job Table and the processes are as they were,
\* and the error processInput returns is the Validator's.
C15_ValidationPrecedesDispatch ==
    [][(CallStep /\ pc = "ready" /\ op' = "input" /\ cmd' # NoCmd
          /\ ValidateCommand(cmd') # ErrNil)
          => /\ ~dispatched'
             /\ err' = ValidateCommand(cmd')
             /\ jobs' = jobs
             /\ jobCounter' = jobCounter
             /\ exited' = exited
             /\ pc' = "ready"
             /\ ~spawned']_vars

\* C15 witness: `jobs` with too many arguments was rejected while a Done job was
\* tracked, and the Done job is still there: handleJobs did not run.
C15_Witness ==
    /\ op = "input"
    /\ cmd.Command = JOBS
    /\ err = ErrTooManyArgs
    /\ ~dispatched
    /\ \E i \in DOMAIN jobs : jobs[i].status = JobStatusDone

\* C16: ValidateCommand accepts the nil command and every command with an
\* empty name; it rejects every other command whose name contains "..", or one
\* of | ; & < > ( ) { } [ ], or has more than 256 characters, or that has an
\* argument of more than 1024 characters or more than 100 arguments, the name
\* counted; and the call changes neither the command nor anything else.
C16_ValidateRejects ==
    [][(applied' = "validate" /\ applied # "validate")
          => /\ (pureCmd.nil \/ pureCmd.Command = <<>>) => pureErr' = ErrNil
             /\ (/\ ~pureCmd.nil
                 /\ pureCmd.Command # <<>>
                 /\ \/ \E i \in 1..(Len(pureCmd.Command) - 1) :
                          SubSeq(pureCmd.Command, i, i + 1) = <<".", ".">>
                    \/ \E i \in 1..Len(pureCmd.Command) :
                          pureCmd.Command[i]
                             \in {"|", ";", "&", "<", ">", "(", ")", "{", "}", "[", "]"}
                    \/ Len(pureCmd.Command) > 256
                    \/ \E i \in 1..Len(pureCmd.Args) : Len(pureCmd.Args[i]) > 1024
                    \/ Len(pureCmd.Args) > 100)
                  => pureErr' # ErrNil
             /\ pureCmd' = pureCmd
             /\ UNCHANGED <<jobs, jobCounter, exited, pc, cmd, op, err>>]_vars

\* C16 witness: a command with a valid name and 101 arguments was rejected.
C16_Witness ==
    /\ applied = "validate"
    /\ pureCmd.Command = <<"o", "k">>
    /\ Len(pureCmd.Args) = 101
    /\ pureErr = ErrTooManyArgs

\* The characters tokenize splits on.
Blank == {" ", "\t"}

\* The positions of s whose character is not in ws.
NonBlank(s, ws) == {i \in 1..Len(s) : s[i] \notin ws}

\* The set of integers S has a least and a greatest element when not empty.
Least(S) == CHOOSE i \in S : \A j \in S : i <= j
Greatest(S) == CHOOSE i \in S : \A j \in S : i >= j

\* s without the characters of ws at its two ends.
Strip(s, ws) ==
    IF NonBlank(s, ws) = {} THEN <<>>
    ELSE SubSeq(s, Least(NonBlank(s, ws)), Greatest(NonBlank(s, ws)))

\* The pieces of s between runs of characters of ws, in order, none empty.
SplitOn(s, ws) ==
    LET starts == {i \in NonBlank(s, ws) : i = 1 \/ s[i - 1] \in ws}
        end(i) == Least({j \in i..Len(s) : j = Len(s) \/ s[j + 1] \in ws})
        nth(n) == CHOOSE i \in starts : Cardinality({k \in starts : k <= i}) = n
    IN  [n \in 1..Cardinality(starts) |-> SubSeq(s, nth(n), end(nth(n)))]

\* The number of occurrences of the character c in the strings of args.
CountIn(args, c) ==
    Cardinality({p \in (1..Len(args)) \X (1..(Len(pureLine) + 1)) :
                    p[2] <= Len(args[p[1]]) /\ args[p[1]][p[2]] = c})

\* C17: Parse returns a command with Background true exactly when the line
\* without its surrounding white space ends in "&"; its arguments are then the
\* tokens of the line without that one "&" and the white space before it, so
\* they hold one "&" less than the line; the name is argument 0; a line that is
\* blank, or blank once the marker is taken off, gives no command; and
\* "sleep 5 &" gives name "sleep", arguments ["sleep", "5"], background true.
C17_ParseBackground ==
    applied = "parse" =>
        LET t == Strip(pureLine, WhiteSpace)
            amp == t # <<>> /\ t[Len(t)] = "&"
            body == IF amp THEN Strip(SubSeq(t, 1, Len(t) - 1), WhiteSpace) ELSE t
        IN  /\ body = <<>> => pureCmd = NoCmd
            /\ pureCmd # NoCmd
                 => /\ pureCmd.Background = amp
                    /\ pureCmd.Args = tokenize(body)
                    /\ pureCmd.Command = pureCmd.Args[1]
                    /\ CountIn(pureCmd.Args, "&")
                          = Cardinality({i \in 1..Len(pureLine) : pureLine[i] = "&"})
                               - (IF amp THEN 1 ELSE 0)
            /\ pureLine = <<"s", "l", "e", "e", "p", " ", "5", " ", "&">>
                 => pureCmd = [Command |-> <<"s", "l", "e", "e", "p">>,
                               Args |-> <<<<"s", "l", "e", "e", "p">>, <<"5">>>>,
                               Background |-> TRUE, nil |-> FALSE]

\* C17 witness: Parse("sleep 5 &") has returned a background command.
C17_Witness ==
    /\ applied = "parse"
    /\ pureLine = <<"s", "l", "e", "e", "p", " ", "5", " ", "&">>
    /\ pureCmd.Background

\* The two quote characters.
QuoteChars == {"\"", "'"}

\* The token a quote span with the characters body makes on its own.
SpanToken(body) == IF body = <<>> THEN <<>> ELSE <<body>>

C19_SplitOnWhiteSpace ==
    (applied = "tokenize" /\ \A i \in 1..Len(pureLine) : pureLine[i] \notin QuoteChars)
        => pureTokens = SplitOn(pureLine, WhiteSpace)

\* C19: a line without quote characters tokenizes to its pieces between runs of
\* spaces and tabs, none of them empty; other white space stays in the tokens.
C19_SplitOnBlanks ==
    (applied = "tokenize" /\ \A i \in 1..Len(pureLine) : pureLine[i] \notin QuoteChars)
        => /\ pureTokens = SplitOn(pureLine, Blank)
           /\ \A n \in 1..Len(pureTokens) : pureTokens[n] # <<>>

\* C19 witness: a line with runs of spaces and tabs at both ends and between
\* two words was tokenized.
C19_Witness ==
    /\ applied = "tokenize"
    /\ pureLine = <<" ", "a", "\t", " ", "a">>
    /\ pureTokens = <<<<"a">>, <<"a">>>>

\* C20: in the shell as wired no step puts a job in the table, so the table is
\* empty and the counter 0 throughout; every fg and bg line returns an error and
\* leaves the loop reading; and the kill pass of exit or of shutdown calls
\* KillJob for no job.
C20_TableStaysEmpty ==
    [][/\ DOMAIN jobs' = {}
       /\ jobCounter' = 0
       /\ exited' = {}
       /\ ~spawned' \/ cmd'.Command = CLEAR
       /\ (CallStep /\ op' = "input" /\ cmd' # NoCmd /\ cmd'.Command \in {FG, BG})
            => (err' \notin {ErrNil, Pending} /\ pc' = "ready")
       /\ pc' = "exited" => (killsIssued' = {} /\ killsOk' = {})]_vars

\* C20 witness: after a signal was noticed, `fg 1` was refused because no job
\* is tracked.
C20_Witness ==
    /\ notices = 1
    /\ op = "input"
    /\ cmd.Command = FG
    /\ arg = 1
    /\ err = ErrNoJobs
    /\ DOMAIN jobs = {}

\* C21: a step of the signal listener, and the delivery of a signal, leave the
\* Job Table, the processes and the state of the loop as they were; and a step
\* that changes the table leaves the listener as it was, so every change of the
\* set of tracked jobs or of a job's status is a step of the loop's thread.
C21_ListenerLeavesTable ==
    [][/\ (sigChan' # sigChan \/ listener' # listener \/ notices' # notices
              \/ delivered' # delivered)
            => UNCHANGED <<jobs, jobCounter, exited, pc, fgJob, lastJob, listed, op, arg, err,
                           cmd, spawned, callNo, killsIssued>>
       /\ (jobs' # jobs \/ jobCounter' # jobCounter)
            => (CallStep /\ UNCHANGED <<sigChan, listener, notices, delivered>>)]_vars

\* C21 witness: the listener printed its notice while the loop was blocked in
\* the wait of a foreground job, which is still tracked and Running.
C21_Witness ==
    /\ notices = 1
    /\ listener = "done"
    /\ pc = "waiting"
    /\ fgJob \in DOMAIN jobs
    /\ jobs[fgJob].status = JobStatusRunning

\* C22: in every reachable state of the Job Table a tracked job has endTime set
\* if and only if its status is Done; the same holds of the Job object that
\* BringToForeground completed and took out of the table.
C22_EndTimeIffDone ==
    /\ \A i \in DOMAIN jobs : (jobs[i].endTime # NoTime) <=> (jobs[i].status = JobStatusDone)
    /\ lastJob # NoJob => (lastJob.endTime # NoTime) <=> (lastJob.status = JobStatusDone)

\* C22 witness: a killed job is Done with its endTime, next to a job that was
\* stopped and resumed and has none.
C22_Witness ==
    /\ op = "bg"
    /\ err = ErrNil
    /\ \E i \in DOMAIN jobs : jobs[i].status = JobStatusDone /\ jobs[i].endTime = now
    /\ \E i \in DOMAIN jobs : jobs[i].status = JobStatusRunning /\ jobs[i].endTime = NoTime

\* C23: a line that runs the jobs built-in displays no job whose status is
\* Done and leaves no Done job in the table, and every job that was Running or
\* Stopped is displayed and is in the table as it was; the built-in returns no
\* error.
C23_JobsCleansThenLists ==
    [][(CallStep /\ op' = "input" /\ dispatched' /\ cmd'.Command = JOBS)
          => /\ \A j \in listed' : j.status # JobStatusDone
             /\ \A i \in DOMAIN jobs' : jobs'[i].status # JobStatusDone
             /\ \A i \in DOMAIN jobs :
                    jobs[i].status \in {JobStatusRunning, JobStatusStopped}
                       => /\ i \in DOMAIN jobs'
                          /\ jobs'[i] = jobs[i]
                          /\ jobs[i] \in listed'
             /\ err' = ErrNil]_vars

\* C23 witness: the jobs built-in has run and displayed a Stopped job, which is
\* still in the table.
C23_Witness ==
    /\ op = "input"
    /\ dispatched
    /\ cmd.Command = JOBS
    /\ \E i \in DOMAIN jobs : jobs[i].status = JobStatusStopped /\ jobs[i] \in listed

\* C24: for every input line, Parse returns no command, or a command with at
\* least one argument whose name is argument 0 and is not empty, and none of
\* whose arguments is the empty string.
C24_ParsedCommandShape ==
    applied = "parse"
       => \/ pureCmd = NoCmd
          \/ /\ ~pureCmd.nil
             /\ Len(pureCmd.Args) >= 1
             /\ pureCmd.Command = pureCmd.Args[1]
             /\ pureCmd.Command # <<>>
             /\ \A i \in 1..Len(pureCmd.Args) : pureCmd.Args[i] # <<>>

\* C24 witness: the line ""<space>a was parsed; the empty quote span made no
\* token, and the command is a with itself as its only argument.
C24_Witness ==
    /\ applied = "parse"
    /\ pureLine = <<"\"", "\"", " ", "a">>
    /\ pureCmd.Command = <<"a">>
    /\ pureCmd.Args = <<<<"a">>>>

====
